---- MODULE Spec2Model ----
(***************************************************************************)
(* Warehouse bot: the aiogram handlers of src/src/bot/handlers.py acting   *)
(* on the three sheets kept by src/src/sheets/client.py (employees,        *)
(* shifts, operations) and on the per-user FSM storage (state + data).     *)
(*                                                                         *)
(* One action per handler.  An update is a (user, message text) or a       *)
(* (user, callback data) pair; the router gives it to the first handler,   *)
(* in registration order, whose filters pass (MessageHandler and           *)
(* CallbackHandler below).  Every Sheets call may raise; the parameter f   *)
(* of an action names the call that raises (0: none).                      *)
(*                                                                         *)
(* Cells: a date cell is the day number (format_date_dmy is injective), a  *)
(* time cell "HH:MM" is the minute of the day, an empty cell is Empty.     *)
(* Instants are seconds since 00:00:00 of day 0.                           *)
(***************************************************************************)
EXTENDS Integers, Sequences, FiniteSets, TLC

VARIABLES clock, employees, shifts, operations, fsm, fresh, input, last, events,
          chosen_at, running

vars == <<clock, employees, shifts, operations, fsm, fresh, input, last, events,
          chosen_at, running>>

store == <<employees, shifts, operations>>

(* ------------------------------ bounds -------------------------------- *)

\* days the clock may run past ClockInit's day
MaxDays == 1
\* seconds the clock may run past ClockInit within a day
MaxDrift == 125
\* rows of the shifts sheet
MaxShiftRows == 2
\* rows of the operations sheet
MaxOpRows == 1
\* updates, in one run, that change a sheet or a session
MaxEvents == 4
\* rows of each sheet the summaries are computed from, in SummarySpec
MaxSummaryRows == 2
\* updates of the working day of DaySpec
MaxDayEvents == 7
\* webhook requests handled concurrently, in ConcurrentSpec
MaxTasks == 2

(* ---------------------------- constants ------------------------------- *)

Users == {1, 2}

SecondsPerMinute == 60
DaySecs == 24 * 60 * SecondsPerMinute

\* 09:00:55 of day 0
ClockInit == 9 * 60 * SecondsPerMinute + 55
TickSteps == {0, 125, DaySecs}
BackSteps == {125}

Empty == -1
NoStr == "<none>"
NoInt == -1

BTN_START_SHIFT == "BTN_START_SHIFT"
BTN_END_SHIFT == "BTN_END_SHIFT"
BTN_FBS == "BTN_FBS"
BTN_PACKING == "BTN_PACKING"
BTN_OTHER_TASKS == "BTN_OTHER_TASKS"
BTN_MY_REPORT == "BTN_MY_REPORT"
CB_FINISH_OPERATION == "CB_FINISH_OPERATION"
CB_CANCEL_OPERATION == "CB_CANCEL_OPERATION"
CMD_START == "/start"
CMD_ADMIN_SUMMARY == "/admin_summary"

\* a line of text of five fields: type; sku; quantity; minutes; comment.  The
\* quantity field is not an integer.
FREEFORM_LINE == "Upakovka; A1; abc; 20; korobki"

OP_FBS == "Sborka FBS"
OP_PACKING == "Upakovka"
OP_OTHER == "Prochie zadachi"

\* message texts of the updates: the commands, the six menu buttons, a free
\* text, two integers, a line of semicolon-delimited fields and the empty text
\* (also a message with no text)
MsgTexts ==
  {CMD_START, CMD_ADMIN_SUMMARY, BTN_START_SHIFT, BTN_END_SHIFT, BTN_FBS,
   BTN_PACKING, BTN_OTHER_TASKS, BTN_MY_REPORT, "A1", "3", "0", FREEFORM_LINE, ""}

\* what is sent as the name, as the article and as the quantity: a free text,
\* a menu button, integers, the empty text
NameTexts == {"A1", BTN_START_SHIFT, ""}
ArticleTexts == {"A1", BTN_OTHER_TASKS, ""}
QuantityTexts == {"3", "0", BTN_OTHER_TASKS, ""}

\* callback data of the updates
CallbackData ==
  {CB_FINISH_OPERATION, CB_CANCEL_OPERATION, "other_task:cleaning", "pack_type:box"}

\* int(text): the value, or NoInt when int() raises ValueError
IntOf(text) ==
  IF text = "3" THEN 3 ELSE IF text = "10" THEN 10 ELSE IF text = "0" THEN 0 ELSE NoInt

IsIntText(text) == text \in {"3", "10", "0"}

\* callback.data.startswith("other_task:")
IsOtherTaskCallback(cb) == cb \in {"other_task:cleaning"}

\* callback.data.split(":", 1)[1]
OtherTaskOf(cb) == IF cb = "other_task:cleaning" THEN "cleaning" ELSE NoStr

(* ------------------------- datetime_utils ----------------------------- *)

DateOf(t) == t \div DaySecs
SecOfDay(t) == t % DaySecs
\* "%H:%M" of an instant: the seconds are dropped
format_time_hm(t) == SecOfDay(t) \div SecondsPerMinute
\* the time of day of "HH:MM", in seconds
parse_time_hm(m) == m * SecondsPerMinute
format_date_dmy(d) == d
\* datetime.combine(day, time)
Combine(d, secs) == d * DaySecs + secs
\* the days of a run
Days == 0..(DateOf(ClockInit) + MaxDays)
\* int((a - b).total_seconds() // 60), clamped at 0
\* ClampedMinutes without the clamp at 0
FlooredMinutes(a, b) == (a - b) \div SecondsPerMinute

ClampedMinutes(a, b) ==
  LET d == (a - b) \div SecondsPerMinute IN IF d < 0 THEN 0 ELSE d

(* ------------------------------- FSM ---------------------------------- *)

States ==
  {"None", "waiting_name", "waiting_article", "waiting_quantity",
   "waiting_packing_type", "waiting_other_task_type", "waiting_finish"}

OperationStates ==
  {"waiting_article", "waiting_quantity", "waiting_packing_type",
   "waiting_other_task_type", "waiting_finish"}

DataKeys ==
  {"operation_type", "employee_tg_id", "article", "quantity",
   "start_time_iso", "other_task_type"}

EmptyData ==
  [operation_type |-> NoStr, employee_tg_id |-> NoInt, article |-> NoStr,
   quantity |-> NoInt, start_time_iso |-> NoInt, other_task_type |-> NoStr]

Absent(k) == IF k \in {"employee_tg_id", "quantity", "start_time_iso"} THEN NoInt ELSE NoStr

\* the keys present in the data dict
KeysOf(data) == {k \in DataKeys : data[k] # Absent(k)}

\* Clear that resets the state and keeps the data
ClearKeepsData(s) == [s EXCEPT !.state = "None"]

\* state.clear(): the state and the data
Clear(s) == [state |-> "None", data |-> EmptyData]

\* state.set_state(x)
SetState(s, x) == [s EXCEPT !.state = x]

(* ------------------------------ sheets -------------------------------- *)

\* index of the first Employees row of a Telegram id, 0 when there is none
EmployeeRow(tg) ==
  IF \E i \in 1..Len(employees) : employees[i].Telegram_ID = tg
  THEN CHOOSE i \in 1..Len(employees) :
         /\ employees[i].Telegram_ID = tg
         /\ \A j \in 1..(i - 1) : employees[j].Telegram_ID # tg
  ELSE 0

Registered(tg) == EmployeeRow(tg) # 0

\* FindOpenShiftRow without the comparison of the Telegram id
FindOpenShiftRowOfAnyone(tg, day) ==
  LET open(i) == shifts[i].Date = format_date_dmy(day) /\ shifts[i].End = Empty
  IN IF \E i \in 1..Len(shifts) : open(i)
     THEN CHOOSE i \in 1..Len(shifts) : open(i) /\ \A j \in 1..(i - 1) : ~open(j)
     ELSE 0

\* index of the first Shifts row of the id and the day with an empty end, or 0
FindOpenShiftRow(tg, day) ==
  LET open(i) == /\ shifts[i].Date = format_date_dmy(day)
                 /\ shifts[i].Telegram_ID = tg
                 /\ shifts[i].End = Empty
  IN IF \E i \in 1..Len(shifts) : open(i)
     THEN CHOOSE i \in 1..Len(shifts) : open(i) /\ \A j \in 1..(i - 1) : ~open(j)
     ELSE 0

has_open_shift_for_today(tg, day) == FindOpenShiftRow(tg, day) # 0

(* ------------------------------ events -------------------------------- *)

\* what an update came to: who sent it, the handler that took it, the store
\* call that raised, the answer, the append_operation calls made and, for the
\* two reports, the figures of the answer; state is the FSM state of the sender
\* when the update came, the one the filters of the router saw
Event(u, h, f, outcome, appends) ==
  [user |-> u, handler |-> h, fail |-> f, outcome |-> outcome, opAppends |-> appends,
   summary |-> <<>>, state |-> IF u \in Users THEN fsm[u].state ELSE "None"]

\* the bot waits for the next update
Waiting == Event(0, "wait", 0, "none", 0)

\* the handler's answer; handling an update takes no time
Reply(u, h, f, outcome, appends) ==
  /\ last' = Event(u, h, f, outcome, appends)
  /\ UNCHANGED clock

\* the handler answered with the figures of a summary and changed nothing
\* AnswerWith, also writing 0 into the duration cell of the open shifts counted
AnswerWithWriteBack(u, h, outcome, summary) ==
  /\ last' = [Event(u, h, 0, outcome, 0) EXCEPT !.summary = summary]
  /\ shifts' = [i \in 1..Len(shifts) |->
                  IF shifts[i].End = Empty THEN [shifts[i] EXCEPT !.Dur = 0] ELSE shifts[i]]
  /\ UNCHANGED <<clock, employees, operations, fsm, fresh>>

AnswerWith(u, h, outcome, summary) ==
  /\ last' = [Event(u, h, 0, outcome, 0) EXCEPT !.summary = summary]
  /\ UNCHANGED <<clock, employees, shifts, operations, fsm, fresh>>

\* an exception left the handler: nothing was written, no state was set
Raised(u, h, f) ==
  /\ Reply(u, h, f, "exception", 0)
  /\ UNCHANGED <<employees, shifts, operations, fsm, fresh>>

\* the handler answered and changed nothing
Answer(u, h, f, outcome) ==
  /\ Reply(u, h, f, outcome, 0)
  /\ UNCHANGED <<employees, shifts, operations, fsm, fresh>>

\* the first message handler, in registration order, whose filters pass
MessageHandler(state, text) ==
  IF text = CMD_START THEN "cmd_start"
  ELSE IF state = "waiting_name" THEN "process_name"
  ELSE IF text = BTN_START_SHIFT THEN "start_shift"
  ELSE IF text = BTN_END_SHIFT THEN "end_shift"
  ELSE IF text = BTN_FBS THEN "start_fbs_operation"
  ELSE IF text = BTN_PACKING THEN "start_packing_operation"
  ELSE IF state = "waiting_article" THEN "process_article"
  ELSE IF state = "waiting_quantity" THEN "process_quantity"
  ELSE IF text = BTN_OTHER_TASKS THEN "start_other_task"
  ELSE IF text = BTN_MY_REPORT THEN "my_report_today"
  ELSE IF text = CMD_ADMIN_SUMMARY THEN "admin_summary"
  ELSE "unhandled"

\* the first callback handler, in registration order, whose filters pass
\* CallbackHandler with the cancel handler filtered on any state of a dialog
CallbackHandlerCancelAnywhere(state, cb) ==
  IF state = "waiting_other_task_type" /\ IsOtherTaskCallback(cb) THEN "other_task_chosen"
  ELSE IF state = "waiting_finish" /\ cb = CB_FINISH_OPERATION THEN "finish_operation"
  ELSE IF state \in OperationStates /\ cb = CB_CANCEL_OPERATION THEN "cancel_operation"
  ELSE "unhandled"

CallbackHandler(state, cb) ==
  IF state = "waiting_other_task_type" /\ IsOtherTaskCallback(cb) THEN "other_task_chosen"
  ELSE IF state = "waiting_finish" /\ cb = CB_FINISH_OPERATION THEN "finish_operation"
  ELSE IF state = "waiting_finish" /\ cb = CB_CANCEL_OPERATION THEN "cancel_operation"
  ELSE "unhandled"

(* ------------------------------- Init --------------------------------- *)

\* The coroutines of handle_webhook, one per request.  pc tells where the
\* coroutine is: "none" (no request yet), "received" (suspended before the
\* body of the handler), "answering" (suspended in the await of the answer),
\* "done".  Where the updates are fed one at a time no coroutine is kept.
TaskIds == 1..MaxTasks

NoTask == [user |-> 0, handler |-> "none", pc |-> "none", outcome |-> "none"]

NoTasks == [t \in TaskIds |-> NoTask]

\* SheetsClient.start_shift: the row appended to the Shifts sheet.  started_at
\* and ended_at are not cells: they keep the instants of the two events.
NewShiftRow(emp, now) ==
  [Date |-> format_date_dmy(DateOf(now)), Name |-> emp.Display_Name,
   Telegram_ID |-> emp.Telegram_ID, Start |-> format_time_hm(now),
   End |-> Empty, Dur |-> Empty, started_at |-> now, ended_at |-> NoInt]

\* The sheets outlive the bot, the FSM storage (MemoryStorage) does not.  When
\* the bot starts the sheets are empty, or hold the rows of an earlier run:
\* two employees, and possibly the shift employee 1 started before the restart.
EmployeeRowOf(id, tg) ==
  [ID |-> id, Telegram_ID |-> tg, Display_Name |-> "A1",
   Registered_At |-> format_date_dmy(DateOf(ClockInit))]

InitSheets ==
  {[employees |-> <<>>, shifts |-> <<>>],
   [employees |-> <<EmployeeRowOf(1, 1), EmployeeRowOf(2, 2)>>, shifts |-> <<>>],
   [employees |-> <<EmployeeRowOf(1, 1), EmployeeRowOf(2, 2)>>,
    shifts |-> <<NewShiftRow(EmployeeRowOf(1, 1), ClockInit)>>]}

Init ==
  /\ clock = ClockInit
  /\ events = 0
  /\ \E sheets \in InitSheets :
       employees = sheets.employees /\ shifts = sheets.shifts
  /\ operations = <<>>
  /\ fsm = [u \in Users |-> [state |-> "None", data |-> EmptyData]]
  /\ fresh = [u \in Users |-> {}]
  /\ last = Waiting
  /\ input = NoStr
  /\ chosen_at = [u \in Users |-> NoInt]
  /\ running = NoTasks

(* ------------------------------ clock --------------------------------- *)

\* the bot waits for the next update while d seconds pass (0: the next update
\* comes within the same second)
Tick ==
  \E d \in TickSteps :
    /\ DateOf(clock + d) <= DateOf(ClockInit) + MaxDays
    /\ SecOfDay(clock + d) <= SecOfDay(ClockInit) + MaxDrift
    /\ clock' = clock + d
    /\ last' = Waiting
    /\ input' = NoStr
    /\ UNCHANGED <<employees, shifts, operations, fsm, fresh, events, chosen_at, running>>

\* the wall clock is set back while the bot waits for the next update
ClockSetBack ==
  \E d \in BackSteps :
    /\ SecOfDay(clock) - d >= SecOfDay(ClockInit)
    /\ clock' = clock - d
    /\ last' = Waiting
    /\ input' = NoStr
    /\ UNCHANGED <<employees, shifts, operations, fsm, fresh, events, chosen_at, running>>

(* ----------------------- /start and registration ---------------------- *)

\* cmd_start, also deleting the Operations rows of the employee
cmd_start_dropping_operations(u, f) ==
  /\ f \in 0..1
  /\ IF f = 1
     THEN Raised(u, "cmd_start", f)
     ELSE IF Registered(u)
          THEN /\ fsm' = [fsm EXCEPT ![u] = Clear(@)]
               /\ fresh' = [fresh EXCEPT ![u] = {}]
               /\ operations' = SelectSeq(operations, LAMBDA r : r.Telegram_ID # u)
               /\ Reply(u, "cmd_start", f, "welcome_back", 0)
               /\ UNCHANGED <<employees, shifts>>
          ELSE /\ fsm' = [fsm EXCEPT ![u] = SetState(@, "waiting_name")]
               /\ Reply(u, "cmd_start", f, "ask_name", 0)
               /\ UNCHANGED <<employees, shifts, operations, fresh>>

\* cmd_start without state.clear() for a registered employee
cmd_start_without_clear(u, f) ==
  /\ f \in 0..1
  /\ IF f = 1
     THEN Raised(u, "cmd_start", f)
     ELSE IF Registered(u)
          THEN Answer(u, "cmd_start", f, "welcome_back")
          ELSE /\ fsm' = [fsm EXCEPT ![u] = SetState(@, "waiting_name")]
               /\ Reply(u, "cmd_start", f, "ask_name", 0)
               /\ UNCHANGED <<employees, shifts, operations, fresh>>

\* cmd_start without the lookup: the name is asked whoever sends /start
cmd_start_without_lookup(u, f) ==
  /\ f \in 0..1
  /\ IF f = 1
     THEN Raised(u, "cmd_start", f)
     ELSE /\ fsm' = [fsm EXCEPT ![u] = SetState(@, "waiting_name")]
          /\ Reply(u, "cmd_start", f, "ask_name", 0)
          /\ UNCHANGED <<employees, shifts, operations, fresh>>

cmd_start(u, f) ==
  /\ f \in 0..1
  /\ IF f = 1
     THEN Raised(u, "cmd_start", f)
     ELSE IF Registered(u)
          THEN /\ fsm' = [fsm EXCEPT ![u] = Clear(@)]
               /\ fresh' = [fresh EXCEPT ![u] = {}]
               /\ Reply(u, "cmd_start", f, "welcome_back", 0)
               /\ UNCHANGED <<employees, shifts, operations>>
          ELSE /\ fsm' = [fsm EXCEPT ![u] = SetState(@, "waiting_name")]
               /\ Reply(u, "cmd_start", f, "ask_name", 0)
               /\ UNCHANGED <<employees, shifts, operations, fresh>>

\* register_employee: the row appended to the Employees sheet
NewEmployeeRow(tg, display_name, today) ==
  [ID |-> Len(employees) + 1, Telegram_ID |-> tg, Display_Name |-> display_name,
   Registered_At |-> format_date_dmy(today)]

process_name(u, text, f) ==
  /\ f \in 0..1
  /\ IF text = ""
     THEN Answer(u, "process_name", 0, "name_empty")
     ELSE IF f # 0
          THEN Raised(u, "process_name", f)
          ELSE /\ employees' = Append(employees, NewEmployeeRow(u, text, DateOf(clock)))
               /\ fsm' = [fsm EXCEPT ![u] = Clear(@)]
               /\ fresh' = [fresh EXCEPT ![u] = {}]
               /\ Reply(u, "process_name", f, "registered", 0)
               /\ UNCHANGED <<shifts, operations>>

(* ------------------------------ shifts -------------------------------- *)

\* ShiftDuration without the division by 60
ShiftDurationInSeconds(row, now) ==
  LET start_time == Combine(DateOf(now), parse_time_hm(row.Start))
  IN IF now - start_time < 0 THEN 0 ELSE now - start_time

\* SheetsClient.end_shift: the duration written to column F
ShiftDuration(row, now) ==
  LET start_time == Combine(DateOf(now), parse_time_hm(row.Start))
  IN ClampedMinutes(now, start_time)

\* SheetsClient.end_shift: cells E and F of the row found
\* CloseShiftRow writing one column to the left: D and E instead of E and F
CloseShiftRowShifted(row, now) ==
  [row EXCEPT !.Start = format_time_hm(now), !.End = ShiftDuration(row, now),
              !.ended_at = now]

CloseShiftRow(row, now) ==
  [row EXCEPT !.End = format_time_hm(now), !.Dur = ShiftDuration(row, now),
              !.ended_at = now]

start_shift(u, f) ==
  /\ f \in 0..3
  /\ IF f = 1 THEN Raised(u, "start_shift", f)
     ELSE IF ~Registered(u) THEN Answer(u, "start_shift", 0, "NOT_REGISTERED_TEXT")
     ELSE IF f = 2 THEN Raised(u, "start_shift", f)
     ELSE IF has_open_shift_for_today(u, DateOf(clock))
          THEN Answer(u, "start_shift", 0, "shift_already_started")
     ELSE IF f = 3 THEN Answer(u, "start_shift", f, "shift_write_error")
     ELSE /\ Len(shifts) < MaxShiftRows
          /\ shifts' = Append(shifts, NewShiftRow(employees[EmployeeRow(u)], clock))
          /\ Reply(u, "start_shift", f, "shift_started", 0)
          /\ UNCHANGED <<employees, operations, fsm, fresh>>

\* end_shift, also clearing the session of the employee when the shift ended
end_shift_clearing_session(u, f) ==
  /\ f \in 0..3
  /\ IF f = 1 THEN Raised(u, "end_shift", f)
     ELSE IF ~Registered(u) THEN Answer(u, "end_shift", 0, "NOT_REGISTERED_TEXT")
     ELSE IF f = 2 THEN Answer(u, "end_shift", f, "shift_end_error")
     ELSE LET row_index == FindOpenShiftRow(u, DateOf(clock)) IN
          IF row_index = 0 THEN Answer(u, "end_shift", 0, "no_open_shift")
          ELSE IF f = 3 THEN Answer(u, "end_shift", f, "shift_end_error")
          ELSE /\ shifts' = [shifts EXCEPT ![row_index] = CloseShiftRow(@, clock)]
               /\ fsm' = [fsm EXCEPT ![u] = Clear(@)]
               /\ fresh' = [fresh EXCEPT ![u] = {}]
               /\ Reply(u, "end_shift", f, "shift_ended", 0)
               /\ UNCHANGED <<employees, operations>>

end_shift(u, f) ==
  /\ f \in 0..3
  /\ IF f = 1 THEN Raised(u, "end_shift", f)
     ELSE IF ~Registered(u) THEN Answer(u, "end_shift", 0, "NOT_REGISTERED_TEXT")
     ELSE IF f = 2 THEN Answer(u, "end_shift", f, "shift_end_error")
     ELSE LET row_index == FindOpenShiftRow(u, DateOf(clock)) IN
          IF row_index = 0 THEN Answer(u, "end_shift", 0, "no_open_shift")
          ELSE IF f = 3 THEN Answer(u, "end_shift", f, "shift_end_error")
          ELSE /\ shifts' = [shifts EXCEPT ![row_index] = CloseShiftRow(@, clock)]
               /\ Reply(u, "end_shift", f, "shift_ended", 0)
               /\ UNCHANGED <<employees, operations, fsm, fresh>>

(* ---------------------------- operations ------------------------------ *)

\* check_can_start_operation without the check of the open shift
check_without_shift(u, f) ==
  IF f = 1 THEN "exception"
  ELSE IF ~Registered(u) THEN "NOT_REGISTERED_TEXT"
  ELSE IF f = 2 THEN "exception"
  ELSE IF fsm[u].state # "None" THEN "OPERATION_ALREADY_ACTIVE_TEXT"
  ELSE "ok"

\* _check_can_start_operation: "ok" when the employee is returned, else the
\* answer sent ("exception" when a Sheets call raises)
check_can_start_operation(u, f) ==
  IF f = 1 THEN "exception"
  ELSE IF ~Registered(u) THEN "NOT_REGISTERED_TEXT"
  ELSE IF f = 2 THEN "exception"
  ELSE IF ~has_open_shift_for_today(u, DateOf(clock)) THEN "NO_OPEN_SHIFT_TEXT"
  ELSE IF fsm[u].state # "None" THEN "OPERATION_ALREADY_ACTIVE_TEXT"
  ELSE "ok"

\* state.update_data(operation_type=..., employee_tg_id=...)
WithOperation(data, op_type, tg) ==
  [data EXCEPT !.operation_type = op_type, !.employee_tg_id = tg]

\* the three triggers: start_fbs_operation, start_packing_operation,
\* start_other_task
StartOperation(u, f, h, op_type, next_state, prompt) ==
  /\ f \in 0..2
  /\ LET check == check_can_start_operation(u, f) IN
     IF check = "exception" THEN Raised(u, h, f)
     ELSE IF check # "ok" THEN Answer(u, h, 0, check)
     ELSE /\ fsm' = [fsm EXCEPT ![u] =
                       [state |-> next_state,
                        data |-> WithOperation(@.data, op_type, u)]]
          /\ fresh' = [fresh EXCEPT ![u] = {"operation_type", "employee_tg_id"}]
          /\ Reply(u, h, 0, prompt, 0)
          /\ UNCHANGED <<employees, shifts, operations>>

start_fbs_operation(u, f) ==
  StartOperation(u, f, "start_fbs_operation", OP_FBS, "waiting_article", "ask_article")

start_packing_operation(u, f) ==
  StartOperation(u, f, "start_packing_operation", OP_PACKING, "waiting_article", "ask_article")

start_other_task(u, f) ==
  StartOperation(u, f, "start_other_task", OP_OTHER, "waiting_other_task_type", "ask_other_task")

process_article(u, text) ==
  IF text = ""
  THEN Answer(u, "process_article", 0, "article_empty")
  ELSE /\ fsm' = [fsm EXCEPT ![u] =
                    [state |-> "waiting_quantity", data |-> [@.data EXCEPT !.article = text]]]
       /\ fresh' = [fresh EXCEPT ![u] = @ \cup {"article"}]
       /\ Reply(u, "process_article", 0, "ask_quantity", 0)
       /\ UNCHANGED <<employees, shifts, operations>>

\* int(text) succeeds and the value is positive
\* QuantityAccepted accepting 0 as well
QuantityNotNegative(text) == IsIntText(text) /\ IntOf(text) >= 0

QuantityAccepted(text) == IsIntText(text) /\ IntOf(text) > 0

process_quantity(u, text) ==
  IF ~QuantityAccepted(text)
  THEN Answer(u, "process_quantity", 0, "quantity_invalid")
  ELSE /\ fsm' = [fsm EXCEPT ![u] =
                    [state |-> "waiting_finish",
                     data |-> [@.data EXCEPT !.quantity = IntOf(text),
                                             !.start_time_iso = clock]]]
       /\ fresh' = [fresh EXCEPT ![u] = @ \cup {"quantity", "start_time_iso"}]
       /\ Reply(u, "process_quantity", 0, "operation_started", 0)
       /\ UNCHANGED <<employees, shifts, operations>>

other_task_chosen(u, cb) ==
  /\ fsm' = [fsm EXCEPT ![u] =
               [state |-> "waiting_finish",
                data |-> [@.data EXCEPT !.other_task_type = OtherTaskOf(cb),
                                        !.start_time_iso = clock]]]
  /\ fresh' = [fresh EXCEPT ![u] = @ \cup {"other_task_type", "start_time_iso"}]
  /\ Reply(u, "other_task_chosen", 0, "operation_started", 0)
  /\ UNCHANGED <<employees, shifts, operations>>

(* ------------------------ finish and cancel --------------------------- *)

\* SheetsClient.append_operation: the row appended to the Operations sheet
NewOperationRow(emp, op_type, date_str, article, quantity, time_start, time_end, extra) ==
  [Date |-> date_str, Name |-> emp.Display_Name, Telegram_ID |-> emp.Telegram_ID,
   Type |-> op_type, Article |-> article,
   Quantity |-> IF quantity # NoInt THEN quantity ELSE Empty,
   Start |-> format_time_hm(time_start), End |-> format_time_hm(time_end),
   Dur |-> ClampedMinutes(time_end, time_start), Extra |-> extra]

\* finish_operation: the row built from the data of the session
OperationRowOf(data, now) ==
  LET op_type == IF data.operation_type # NoStr THEN data.operation_type ELSE "Operaciya"
      article == IF data.article # NoStr THEN data.article ELSE ""
      other_task_type == IF data.other_task_type # NoStr THEN data.other_task_type ELSE ""
      start_time == data.start_time_iso
      extra == IF op_type = OP_OTHER THEN other_task_type ELSE ""
  IN NewOperationRow(employees[EmployeeRow(data.employee_tg_id)], op_type,
                     format_date_dmy(DateOf(start_time)), article, data.quantity,
                     start_time, now, extra)

\* the handler answered and cleared the session
AnswerAndClear(u, h, f, outcome, appends) ==
  /\ fsm' = [fsm EXCEPT ![u] = Clear(@)]
  /\ fresh' = [fresh EXCEPT ![u] = {}]
  /\ Reply(u, h, f, outcome, appends)

\* OnAppendError without state.clear()
OnAppendErrorKeepsSession(u) ==
  /\ Reply(u, "finish_operation", 2, "operation_write_error", 1)
  /\ UNCHANGED <<employees, shifts, operations, fsm, fresh>>

\* finish_operation, except branch: the append raised
OnAppendError(u) ==
  /\ AnswerAndClear(u, "finish_operation", 2, "operation_write_error", 1)
  /\ UNCHANGED <<employees, shifts, operations>>

finish_operation(u, f) ==
  /\ f \in 0..2
  /\ LET data == fsm[u].data IN
     IF data.start_time_iso = NoInt \/ data.employee_tg_id = NoInt
     THEN /\ AnswerAndClear(u, "finish_operation", 0, "operation_undetermined", 0)
          /\ UNCHANGED <<employees, shifts, operations>>
     ELSE IF f = 1 THEN Raised(u, "finish_operation", f)
     ELSE IF ~Registered(data.employee_tg_id)
     THEN /\ AnswerAndClear(u, "finish_operation", 0, "employee_not_found", 0)
          /\ UNCHANGED <<employees, shifts, operations>>
     ELSE IF f = 2
     THEN OnAppendError(u)
     ELSE /\ Len(operations) < MaxOpRows
          /\ operations' = Append(operations, OperationRowOf(data, clock))
          /\ AnswerAndClear(u, "finish_operation", f, "operation_done", 1)
          /\ UNCHANGED <<employees, shifts>>

cancel_operation(u) ==
  /\ AnswerAndClear(u, "cancel_operation", 0, "operation_cancelled", 0)
  /\ UNCHANGED <<employees, shifts, operations>>

(* ------------------------------ reports ------------------------------- *)

\* get_shifts_for_employee_and_date: the indexes of the rows returned
ShiftRowsOf(tg, day) ==
  {i \in 1..Len(shifts) :
     shifts[i].Date = format_date_dmy(day) /\ shifts[i].Telegram_ID = tg}

\* `row.get(...) or 0`, then int(): an empty cell counts 0
IntCell(x) == IF x = Empty THEN 0 ELSE x

\* f[1] + ... + f[n]
RECURSIVE SumTo(_, _)
SumTo(f, n) == IF n = 0 THEN 0 ELSE f[n] + SumTo(f, n - 1)

get_shifts_for_employee_and_date(tg, day) ==
  SelectSeq(shifts, LAMBDA row : row.Date = format_date_dmy(day) /\ row.Telegram_ID = tg)

get_operations_for_employee_and_date(tg, day) ==
  SelectSeq(operations,
            LAMBDA row : row.Date = format_date_dmy(day) /\ row.Telegram_ID = tg)

\* build_employee_daily_summary without the count up to now of an open shift
StoredShiftMinutes(shift, day, now) == IntCell(shift.Dur)

\* build_employee_daily_summary: what one shift adds to total_shift_minutes
ShiftMinutes(shift, day, now) ==
  IF shift.End = Empty /\ shift.Start # Empty
  THEN ClampedMinutes(now, Combine(day, parse_time_hm(shift.Start)))
  ELSE IntCell(shift.Dur)

\* the sums of one accumulator pair, over the rows of type op_type
UnitsOf(ops, op_type) ==
  SumTo([i \in 1..Len(ops) |->
           IF ops[i].Type = op_type THEN IntCell(ops[i].Quantity) ELSE 0], Len(ops))

MinutesOf(ops, op_type) ==
  SumTo([i \in 1..Len(ops) |->
           IF ops[i].Type = op_type THEN IntCell(ops[i].Dur) ELSE 0], Len(ops))

\* the residue without max(..., 0)
UnclampedResidue(total_shift_minutes, total_ops_minutes) ==
  total_shift_minutes - total_ops_minutes

\* max(total_shift_minutes - total_ops_minutes, 0)
Residue(total_shift_minutes, total_ops_minutes) ==
  IF total_shift_minutes - total_ops_minutes > 0
  THEN total_shift_minutes - total_ops_minutes ELSE 0

build_employee_daily_summary(tg, day, now) ==
  LET shs == get_shifts_for_employee_and_date(tg, day)
      ops == get_operations_for_employee_and_date(tg, day)
      total_shift_minutes ==
        SumTo([i \in 1..Len(shs) |-> ShiftMinutes(shs[i], day, now)], Len(shs))
      fbs_minutes == MinutesOf(ops, OP_FBS)
      pack_minutes == MinutesOf(ops, OP_PACKING)
      other_minutes == MinutesOf(ops, OP_OTHER)
      total_ops_minutes == fbs_minutes + pack_minutes + other_minutes
  IN [date_str |-> format_date_dmy(day),
      shift_ranges |-> Len(shs),
      total_shift_minutes |-> total_shift_minutes,
      fbs_units |-> UnitsOf(ops, OP_FBS), fbs_minutes |-> fbs_minutes,
      pack_units |-> UnitsOf(ops, OP_PACKING), pack_minutes |-> pack_minutes,
      other_minutes |-> other_minutes,
      total_ops_minutes |-> total_ops_minutes,
      residue_minutes |-> Residue(total_shift_minutes, total_ops_minutes)]

my_report_today(u, f) ==
  /\ f \in 0..2
  /\ IF f = 1 THEN Raised(u, "my_report_today", f)
     ELSE IF ~Registered(u) THEN Answer(u, "my_report_today", 0, "NOT_REGISTERED_TEXT")
     ELSE IF f = 2 THEN Answer(u, "my_report_today", f, "report_error")
     ELSE LET summary == build_employee_daily_summary(u, DateOf(clock), clock) IN
          IF summary.shift_ranges = 0
          THEN Answer(u, "my_report_today", 0, "no_shifts_today")
          ELSE AnswerWith(u, "my_report_today", "report", <<summary>>)

\* build_admin_summary_for_date: the Telegram ids that get an entry
AdminEntries(day) ==
  {shifts[i].Telegram_ID : i \in {j \in 1..Len(shifts) : shifts[j].Date = format_date_dmy(day)}}
  \cup
  {operations[i].Telegram_ID :
     i \in {j \in 1..Len(operations) : operations[j].Date = format_date_dmy(day)}}

\* the rows of a date, Shifts rows first: the order in which stats is filled
RowsOfDate(day) ==
  SelectSeq(shifts, LAMBDA row : row.Date = format_date_dmy(day))
    \o SelectSeq(operations, LAMBDA row : row.Date = format_date_dmy(day))

\* the first row of tg among rows
FirstRowOf(rows, tg) ==
  CHOOSE i \in 1..Len(rows) :
    rows[i].Telegram_ID = tg /\ \A j \in 1..(i - 1) : rows[j].Telegram_ID # tg

\* the keys of stats in the order of insertion, after the first n rows
RECURSIVE StatsKeys(_, _)
StatsKeys(rows, n) ==
  IF n = 0 THEN <<>>
  ELSE LET keys == StatsKeys(rows, n - 1) IN
       IF \E j \in 1..Len(keys) : keys[j] = rows[n].Telegram_ID
       THEN keys ELSE Append(keys, rows[n].Telegram_ID)

\* the keys of stats when only the Shifts rows create an entry
StatsKeysOfShifts(day) ==
  LET rows == SelectSeq(shifts, LAMBDA row : row.Date = format_date_dmy(day))
  IN StatsKeys(rows, Len(rows))

\* build_admin_summary_for_date: the keys of stats
AdminKeys(day) == StatsKeys(RowsOfDate(day), Len(RowsOfDate(day)))

\* build_admin_summary_for_date: stats[tg]
AdminEntry(tg, day) ==
  LET shs == get_shifts_for_employee_and_date(tg, day)
      ops == get_operations_for_employee_and_date(tg, day)
      rows == RowsOfDate(day)
  IN [employee_name |-> rows[FirstRowOf(rows, tg)].Name,
      telegram_id |-> tg,
      shift_minutes |-> SumTo([i \in 1..Len(shs) |-> IntCell(shs[i].Dur)], Len(shs)),
      shift_count |-> Len(shs),
      fbs_units |-> UnitsOf(ops, OP_FBS), fbs_minutes |-> MinutesOf(ops, OP_FBS),
      pack_units |-> UnitsOf(ops, OP_PACKING), pack_minutes |-> MinutesOf(ops, OP_PACKING),
      other_minutes |-> MinutesOf(ops, OP_OTHER)]

build_admin_summary_for_date(day) ==
  LET keys == AdminKeys(day) IN
  [date_str |-> format_date_dmy(day),
   employees |-> [i \in 1..Len(keys) |-> AdminEntry(keys[i], day)]]

\* the text after "/admin_summary": none, a text strptime rejects, or a date
AdminArgs ==
  {[given |-> FALSE, valid |-> TRUE, day |-> 0], [given |-> TRUE, valid |-> FALSE, day |-> 0]}
    \cup {[given |-> TRUE, valid |-> TRUE, day |-> d] : d \in Days}

admin_summary(u, arg, f) ==
  /\ f \in 0..1
  /\ IF arg.given /\ ~arg.valid THEN Answer(u, "admin_summary", 0, "admin_bad_date")
     ELSE LET day == IF arg.given THEN arg.day ELSE DateOf(clock) IN
          IF f = 1 THEN Answer(u, "admin_summary", f, "admin_summary_error")
          ELSE LET summary == build_admin_summary_for_date(day) IN
               IF Len(summary.employees) = 0
               THEN Answer(u, "admin_summary", 0, "admin_no_records")
               ELSE AnswerWith(u, "admin_summary", "admin_report", <<summary>>)

\* no handler takes the update
unhandled(u) == Answer(u, "unhandled", 0, "none")

(* ------------------------------- Next --------------------------------- *)

\* the bot is waiting and the update goes to handler h
MessageTo(u, text, h) ==
  /\ last = Waiting
  /\ MessageHandler(fsm[u].state, text) = h
  /\ input' = text
  /\ UNCHANGED running

CallbackTo(u, cb, h) ==
  /\ last = Waiting
  /\ CallbackHandler(fsm[u].state, cb) = h
  /\ input' = cb
  /\ UNCHANGED running

OnMessage(u, text, h) == events < MaxEvents /\ MessageTo(u, text, h)

OnCallback(u, cb, h) == events < MaxEvents /\ CallbackTo(u, cb, h)

\* events counts the updates that changed a sheet or a session
Counted ==
  events' = IF <<employees, shifts, operations, fsm>>' = <<employees, shifts, operations, fsm>>
            THEN events ELSE events + 1

\* chosen_at is not kept by the bot: for a session in an operation dialog it
\* is the instant of the trigger that began the dialog (set_state at the end
\* of start_fbs_operation, start_packing_operation, start_other_task)
Noted ==
  chosen_at' =
    [u \in Users |->
       IF fsm'[u].state \notin OperationStates THEN NoInt
       ELSE IF fsm[u].state \notin OperationStates THEN clock
       ELSE chosen_at[u]]

Next ==
  \/ Tick
  \/ ClockSetBack
  \/ \E u \in Users, f \in 0..1 :
       OnMessage(u, CMD_START, "cmd_start") /\ cmd_start(u, f) /\ Counted /\ Noted
  \/ \E u \in Users, text \in NameTexts, f \in 0..1 :
       OnMessage(u, text, "process_name") /\ process_name(u, text, f) /\ Counted /\ Noted
  \/ \E u \in Users, f \in 0..3 :
       OnMessage(u, BTN_START_SHIFT, "start_shift") /\ start_shift(u, f) /\ Counted /\ Noted
  \/ \E u \in Users, f \in 0..3 :
       OnMessage(u, BTN_END_SHIFT, "end_shift") /\ end_shift(u, f) /\ Counted /\ Noted
  \/ \E u \in Users, f \in 0..2 :
       OnMessage(u, BTN_FBS, "start_fbs_operation") /\ start_fbs_operation(u, f) /\ Counted /\ Noted
  \/ \E u \in Users, f \in 0..2 :
       /\ OnMessage(u, BTN_PACKING, "start_packing_operation")
       /\ start_packing_operation(u, f) /\ Counted /\ Noted
  \/ \E u \in Users, text \in ArticleTexts :
       OnMessage(u, text, "process_article") /\ process_article(u, text) /\ Counted /\ Noted
  \/ \E u \in Users, text \in QuantityTexts :
       OnMessage(u, text, "process_quantity") /\ process_quantity(u, text) /\ Counted /\ Noted
  \/ \E u \in Users, f \in 0..2 :
       OnMessage(u, BTN_OTHER_TASKS, "start_other_task") /\ start_other_task(u, f) /\ Counted /\ Noted
  \/ \E u \in Users, f \in 0..2 :
       OnMessage(u, BTN_MY_REPORT, "my_report_today") /\ my_report_today(u, f) /\ Counted /\ Noted
  \/ \E u \in Users, arg \in AdminArgs, f \in 0..1 :
       /\ OnMessage(u, CMD_ADMIN_SUMMARY, "admin_summary")
       /\ admin_summary(u, arg, f) /\ Counted /\ Noted
  \/ \E u \in Users, text \in MsgTexts :
       OnMessage(u, text, "unhandled") /\ unhandled(u) /\ Counted /\ Noted
  \/ \E u \in Users, cb \in CallbackData :
       OnCallback(u, cb, "other_task_chosen") /\ other_task_chosen(u, cb) /\ Counted /\ Noted
  \/ \E u \in Users, f \in 0..2 :
       OnCallback(u, CB_FINISH_OPERATION, "finish_operation") /\ finish_operation(u, f) /\ Counted /\ Noted
  \/ \E u \in Users :
       OnCallback(u, CB_CANCEL_OPERATION, "cancel_operation") /\ cancel_operation(u) /\ Counted /\ Noted
  \/ \E u \in Users, cb \in CallbackData :
       OnCallback(u, cb, "unhandled") /\ unhandled(u) /\ Counted /\ Noted

Spec == Init /\ [][Next]_vars

(* ----------------------- summaries of any sheets ---------------------- *)

\* The summaries read whatever the Shifts and Operations sheets hold, and the
\* sheets are shared: besides the rows of this run they hold rows of earlier
\* runs and rows of other types entered by hand.  SummarySpec starts from
\* every pair of sheets of at most MaxSummaryRows rows and asks for the two
\* reports.

SeqsUpTo(S, n) == UNION {[1..k -> S] : k \in 0..n}

\* a type none of the three triggers writes
OP_FREE_TEXT == "Inventarizaciya"

\* before 09:00, 09:03:00, and 09:03:00 of the next day
SummaryClocks == {ClockInit - 125, ClockInit + 125, ClockInit + 125 + DaySecs}

\* rows as start_shift and end_shift write them: started at 09:00:55 of a
\* day, still open or ended 60 seconds later
SummaryShiftRows ==
  LET opened(u, d) == NewShiftRow(EmployeeRowOf(u, u), Combine(d, ClockInit))
  IN {opened(u, d) : u \in Users, d \in Days}
       \cup {CloseShiftRow(opened(u, d), Combine(d, ClockInit + 60)) : u \in Users, d \in Days}

\* rows as append_operation writes them, of day 0, lasting 125 seconds
SummaryOperationRows ==
  {NewOperationRow(EmployeeRowOf(u, u), t, format_date_dmy(0), "A1", q,
                   ClockInit, ClockInit + 125, "") :
     u \in Users, t \in {OP_FBS, OP_PACKING, OP_OTHER, OP_FREE_TEXT}, q \in {NoInt, 3}}

SummaryInit ==
  /\ clock \in SummaryClocks
  /\ events = 0
  /\ employees = <<EmployeeRowOf(1, 1), EmployeeRowOf(2, 2)>>
  /\ shifts \in SeqsUpTo(SummaryShiftRows, MaxSummaryRows)
  /\ operations \in SeqsUpTo(SummaryOperationRows, MaxSummaryRows)
  /\ fsm = [u \in Users |-> [state |-> "None", data |-> EmptyData]]
  /\ fresh = [u \in Users |-> {}]
  /\ last = Waiting
  /\ input = NoStr
  /\ chosen_at = [u \in Users |-> NoInt]
  /\ running = NoTasks

SummaryNext ==
  \/ \E u \in Users :
       OnMessage(u, BTN_MY_REPORT, "my_report_today") /\ my_report_today(u, 0)
         /\ Counted /\ Noted
  \/ \E arg \in AdminArgs :
       OnMessage(1, CMD_ADMIN_SUMMARY, "admin_summary") /\ admin_summary(1, arg, 0)
         /\ Counted /\ Noted

SummarySpec == SummaryInit /\ [][SummaryNext]_vars

(* --------------------------- a working day ---------------------------- *)

\* One employee, registered, on one day; the store answers every call.  The
\* updates arrive at 09:00, 09:05, 09:25 or 17:00, in any order of the
\* buttons and answers of a day of work.

AtHM(h, m) == (h * 60 + m) * SecondsPerMinute

DayInstants == {AtHM(9, 0), AtHM(9, 5), AtHM(9, 25), AtHM(17, 0)}

DayInit ==
  /\ clock = AtHM(9, 0)
  /\ events = 0
  /\ employees = <<EmployeeRowOf(1, 1)>>
  /\ shifts = <<>>
  /\ operations = <<>>
  /\ fsm = [u \in Users |-> [state |-> "None", data |-> EmptyData]]
  /\ fresh = [u \in Users |-> {}]
  /\ last = Waiting
  /\ input = NoStr
  /\ chosen_at = [u \in Users |-> NoInt]
  /\ running = NoTasks

\* the bot waits for the next update
DayTick ==
  \E t \in DayInstants :
    /\ t >= clock
    /\ clock' = t
    /\ last' = Waiting
    /\ input' = NoStr
    /\ UNCHANGED <<employees, shifts, operations, fsm, fresh, events, chosen_at, running>>

DayMessage(text, h) == events < MaxDayEvents /\ MessageTo(1, text, h)

DayCallback(cb, h) == events < MaxDayEvents /\ CallbackTo(1, cb, h)

DayNext ==
  \/ DayTick
  \/ DayMessage(BTN_START_SHIFT, "start_shift") /\ start_shift(1, 0) /\ Counted /\ Noted
  \/ DayMessage(BTN_END_SHIFT, "end_shift") /\ end_shift(1, 0) /\ Counted /\ Noted
  \/ DayMessage(BTN_FBS, "start_fbs_operation") /\ start_fbs_operation(1, 0)
       /\ Counted /\ Noted
  \/ DayMessage("A1", "process_article") /\ process_article(1, "A1") /\ Counted /\ Noted
  \/ DayMessage("10", "process_quantity") /\ process_quantity(1, "10") /\ Counted /\ Noted
  \/ DayCallback(CB_FINISH_OPERATION, "finish_operation") /\ finish_operation(1, 0)
       /\ Counted /\ Noted
  \/ DayCallback(CB_CANCEL_OPERATION, "cancel_operation") /\ cancel_operation(1)
       /\ Counted /\ Noted
  \/ DayMessage(BTN_MY_REPORT, "my_report_today") /\ my_report_today(1, 0)
       /\ Counted /\ Noted

DaySpec == DayInit /\ [][DayNext]_vars

(* -------------------- concurrent webhook requests --------------------- *)

\* Under the webhook aiohttp runs one handle_webhook coroutine per request,
\* all on one event loop: a coroutine runs until it awaits, and only then may
\* another run.  handle_webhook awaits before the handler is called
\* (request.json(), the dispatcher inside feed_update); start_shift and
\* end_shift await nothing but message.answer: the calls of the Sheets client
\* are synchronous.
ShiftHandlers == {"start_shift", "end_shift"}

\* a request arrives: handle_webhook up to the await that precedes the handler
handle_webhook(t, u, h) ==
  /\ running[t].pc = "none"
  /\ running' = [running EXCEPT ![t] =
                   [user |-> u, handler |-> h, pc |-> "received", outcome |-> "none"]]
  /\ UNCHANGED <<clock, employees, shifts, operations, fsm, fresh, input, last, events,
                 chosen_at>>

\* RunToAwait with a suspension point between the check of the open shift and
\* the append of start_shift
RunToAwaitYieldingAfterCheck(t) ==
  LET u == running[t].user
      passes == /\ running[t].handler = "start_shift"
                /\ Registered(u)
                /\ ~has_open_shift_for_today(u, DateOf(clock))
  IN \/ /\ running[t].pc = "received"
        /\ passes
        /\ running' = [running EXCEPT ![t].pc = "checked"]
        /\ UNCHANGED <<clock, employees, shifts, operations, fsm, fresh, input, last,
                       events, chosen_at>>
     \/ /\ running[t].pc = "checked"
        /\ Len(shifts) < MaxShiftRows
        /\ shifts' = Append(shifts, NewShiftRow(employees[EmployeeRow(u)], clock))
        /\ Reply(u, "start_shift", 0, "shift_started", 0)
        /\ UNCHANGED <<employees, operations, fsm, fresh>>
        /\ input' = BTN_START_SHIFT
        /\ running' = [running EXCEPT ![t].pc = "answering", ![t].outcome = "shift_started"]
        /\ Counted /\ Noted
     \/ /\ running[t].pc = "received"
        /\ ~passes
        /\ \/ /\ running[t].handler = "start_shift"
              /\ input' = BTN_START_SHIFT
              /\ \E f \in 0..3 : start_shift(u, f)
           \/ /\ running[t].handler = "end_shift"
              /\ input' = BTN_END_SHIFT
              /\ \E f \in 0..3 : end_shift(u, f)
        /\ running' = [running EXCEPT
                         ![t].pc = IF last'.outcome = "exception" THEN "done" ELSE "answering",
                         ![t].outcome = last'.outcome]
        /\ Counted /\ Noted

\* the handler runs from its first line to its first await (the answer), or
\* to the exception that ends it
RunToAwait(t) ==
  LET u == running[t].user IN
  /\ running[t].pc = "received"
  /\ \/ /\ running[t].handler = "start_shift"
        /\ input' = BTN_START_SHIFT
        /\ \E f \in 0..3 : start_shift(u, f)
     \/ /\ running[t].handler = "end_shift"
        /\ input' = BTN_END_SHIFT
        /\ \E f \in 0..3 : end_shift(u, f)
  /\ running' = [running EXCEPT
                   ![t].pc = IF last'.outcome = "exception" THEN "done" ELSE "answering",
                   ![t].outcome = last'.outcome]
  /\ Counted /\ Noted

\* the await of message.answer returns; handle_webhook answers 200 OK
answered(t) ==
  /\ running[t].pc = "answering"
  /\ running' = [running EXCEPT ![t].pc = "done"]
  /\ UNCHANGED <<clock, employees, shifts, operations, fsm, fresh, input, last, events,
                 chosen_at>>

ConcurrentNext ==
  \/ \E t \in TaskIds, u \in Users, h \in ShiftHandlers : handle_webhook(t, u, h)
  \/ \E t \in TaskIds : RunToAwait(t)
  \/ \E t \in TaskIds : answered(t)

ConcurrentSpec == Init /\ [][ConcurrentNext]_vars

(* ------------------------ the ways out of a dialog --------------------- *)

\* The updates of the dialogs with no bound on their number; the clock stands
\* still.  The employee who completes the steps of the dialog (an article, a
\* quantity that is accepted, the choice of a task, Finished or Cancel) is
\* assumed to do so again and again: DialogSpec is fair to Complete.  The
\* employees are registered; the shifts are started with the Sheets calls
\* answering, and no shift is ended.
Wait ==
  /\ last # Waiting
  /\ last' = Waiting
  /\ input' = NoStr
  /\ UNCHANGED <<clock, employees, shifts, operations, fsm, fresh, events, chosen_at,
                 running>>

DialogMessage(u, text, h) == MessageTo(u, text, h) /\ UNCHANGED events

DialogCallback(u, cb, h) == CallbackTo(u, cb, h) /\ UNCHANGED events

\* Complete without the step of the quantity
CompleteWithoutQuantity(u) ==
  \/ \E text \in ArticleTexts :
       /\ text # ""
       /\ DialogMessage(u, text, "process_article") /\ process_article(u, text) /\ Noted
  \/ \E cb \in CallbackData :
       DialogCallback(u, cb, "other_task_chosen") /\ other_task_chosen(u, cb) /\ Noted
  \/ DialogCallback(u, CB_FINISH_OPERATION, "finish_operation")
       /\ finish_operation(u, 0) /\ Noted
  \/ DialogCallback(u, CB_CANCEL_OPERATION, "cancel_operation")
       /\ cancel_operation(u) /\ Noted

\* the employee completes the step the dialog is at
Complete(u) ==
  \/ \E text \in ArticleTexts :
       /\ text # ""
       /\ DialogMessage(u, text, "process_article") /\ process_article(u, text) /\ Noted
  \/ \E text \in QuantityTexts :
       /\ QuantityAccepted(text)
       /\ DialogMessage(u, text, "process_quantity") /\ process_quantity(u, text) /\ Noted
  \/ \E cb \in CallbackData :
       DialogCallback(u, cb, "other_task_chosen") /\ other_task_chosen(u, cb) /\ Noted
  \/ DialogCallback(u, CB_FINISH_OPERATION, "finish_operation")
       /\ finish_operation(u, 0) /\ Noted
  \/ DialogCallback(u, CB_CANCEL_OPERATION, "cancel_operation")
       /\ cancel_operation(u) /\ Noted

\* the employees registered in an earlier run
DialogInit == Init /\ employees # <<>>

DialogNext ==
  \/ Wait
  \/ \E u \in Users, f \in 0..1 :
       DialogMessage(u, CMD_START, "cmd_start") /\ cmd_start(u, f) /\ Noted
  \/ \E u \in Users :
       DialogMessage(u, BTN_START_SHIFT, "start_shift") /\ start_shift(u, 0) /\ Noted
  \/ \E u \in Users, f \in 0..2 :
       DialogMessage(u, BTN_FBS, "start_fbs_operation") /\ start_fbs_operation(u, f) /\ Noted
  \/ \E u \in Users, f \in 0..2 :
       /\ DialogMessage(u, BTN_PACKING, "start_packing_operation")
       /\ start_packing_operation(u, f) /\ Noted
  \/ \E u \in Users, f \in 0..2 :
       DialogMessage(u, BTN_OTHER_TASKS, "start_other_task") /\ start_other_task(u, f) /\ Noted
  \/ \E u \in Users, text \in ArticleTexts :
       DialogMessage(u, text, "process_article") /\ process_article(u, text) /\ Noted
  \/ \E u \in Users, text \in QuantityTexts :
       DialogMessage(u, text, "process_quantity") /\ process_quantity(u, text) /\ Noted
  \/ \E u \in Users, cb \in CallbackData :
       DialogCallback(u, cb, "other_task_chosen") /\ other_task_chosen(u, cb) /\ Noted
  \/ \E u \in Users, f \in 0..2 :
       DialogCallback(u, CB_FINISH_OPERATION, "finish_operation")
         /\ finish_operation(u, f) /\ Noted
  \/ \E u \in Users :
       DialogCallback(u, CB_CANCEL_OPERATION, "cancel_operation")
         /\ cancel_operation(u) /\ Noted
  \/ \E u \in Users :
       DialogMessage(u, FREEFORM_LINE, "unhandled") /\ unhandled(u) /\ Noted
  \/ \E u \in Users :
       DialogCallback(u, CB_FINISH_OPERATION, "unhandled") /\ unhandled(u) /\ Noted

DialogSpec ==
  /\ DialogInit
  /\ [][DialogNext]_vars
  /\ WF_vars(Wait)
  /\ \A u \in Users : SF_vars(Complete(u))

(* ------------------------------ claims -------------------------------- *)

\* the Shifts rows of an employee whose end time is empty, of any date
OpenShiftRows(u) ==
  {i \in 1..Len(shifts) : shifts[i].Telegram_ID = u /\ shifts[i].End = Empty}

\* this step handles an update of handler h
Handled(h) == last = Waiting /\ last'.handler = h

Idle == [state |-> "None", data |-> EmptyData]

Triggers == {BTN_FBS, BTN_PACKING, BTN_OTHER_TASKS}

\* C1: after any sequence of start-shift and end-shift events, also across a
\* change of the date, every employee has at most one Shifts row whose end
\* time is empty.
C1_AtMostOneOpenShift ==
  \A u \in Users : Cardinality(OpenShiftRows(u)) <= 1

\* C2: an end-shift event from an employee with no open Shifts row changes no
\* row (also when a Sheets call raises); when the Sheets calls answer it raises
\* no exception and is answered with "no open shift".
C2_EndShiftWithoutOpenShift ==
  [][(Handled("end_shift") /\ Registered(last'.user) /\ OpenShiftRows(last'.user) = {})
       => /\ UNCHANGED <<employees, shifts, operations, fsm>>
          /\ last'.fail = 0 => last'.outcome = "no_open_shift"]_vars

C2_Witness ==
  /\ last.handler = "end_shift"
  /\ last.outcome = "no_open_shift"
  /\ Registered(last.user)
  /\ OpenShiftRows(last.user) = {}
  /\ \E i \in 1..Len(shifts) : shifts[i].Telegram_ID = last.user /\ shifts[i].End # Empty

\* C3: whenever an employee has a Shifts row with an empty end time, an
\* end-shift event (the Sheets calls answering) closes that row and reports
\* success, whatever the date of the row; "no open shift" is reported only
\* when the employee has no open Shifts row at all.
C3_EndShiftClosesAnyOpenShift ==
  [][(Handled("end_shift") /\ Registered(last'.user) /\ last'.fail = 0)
       => /\ OpenShiftRows(last'.user) # {}
               => /\ last'.outcome = "shift_ended"
                  /\ \E i \in OpenShiftRows(last'.user) : shifts'[i].End # Empty
          /\ last'.outcome = "no_open_shift" => OpenShiftRows(last'.user) = {}]_vars

\* C4: the duration written when a shift is closed is the whole minutes between
\* the instant of the start-shift event and the instant of the end-shift
\* event, floored, and 0 when the end precedes the start.
C4_ShiftDurationIsElapsedMinutes ==
  \A i \in 1..Len(shifts) :
    shifts[i].End # Empty =>
      shifts[i].Dur = ClampedMinutes(shifts[i].ended_at, shifts[i].started_at)

\* C5: while an operation dialog is in progress for an employee, every
\* operation-start trigger of that employee (the Sheets calls answering) is
\* answered "operation already active" and leaves the state and the fields of
\* the dialog as they were.
C5_TriggerInDialogRejected ==
  [][(last = Waiting /\ last' # Waiting /\ input' \in Triggers
        /\ fsm[last'.user].state \in OperationStates /\ last'.fail = 0)
       => /\ last'.outcome = "OPERATION_ALREADY_ACTIVE_TEXT"
          /\ fsm' = fsm]_vars

\* C6: an operation-start trigger from a registered employee who is Idle and
\* has no open Shifts row (the Sheets calls answering) is answered "no open
\* shift": the state stays Idle, no field is stored and no row is written.
C6_TriggerWithoutShiftRejected ==
  [][(last = Waiting /\ last' # Waiting /\ input' \in Triggers
        /\ Registered(last'.user) /\ fsm[last'.user] = Idle
        /\ OpenShiftRows(last'.user) = {} /\ last'.fail = 0)
       => /\ last'.outcome = "NO_OPEN_SHIFT_TEXT"
          /\ fsm' = fsm
          /\ UNCHANGED <<employees, shifts, operations>>]_vars

C6_Witness ==
  /\ input \in Triggers
  /\ last.outcome = "NO_OPEN_SHIFT_TEXT"
  /\ Registered(last.user)
  /\ fsm[last.user] = Idle
  /\ OpenShiftRows(last.user) = {}

\* C7: a start-shift, end-shift, operation-trigger or report event from an
\* identity with no Employees row writes no row and starts no operation
\* dialog; an Employees row is appended only by process_name in waiting_name.
C7_UnregisteredWritesNothing ==
  [][(last = Waiting /\ last' # Waiting)
       => /\ (~Registered(last'.user)
                /\ input' \in Triggers \cup {BTN_START_SHIFT, BTN_END_SHIFT, BTN_MY_REPORT})
               => /\ UNCHANGED <<employees, shifts, operations>>
                  /\ fsm'[last'.user].state \notin OperationStates
          /\ employees' # employees
               => /\ last'.handler = "process_name"
                  /\ fsm[last'.user].state = "waiting_name"]_vars

\* C8: in waiting_article, waiting_quantity, waiting_other_task_type and
\* waiting_finish the Cancel signal moves the session to Idle, discards the
\* fields and writes no Operations row.
C8_CancelInEveryStep ==
  [][(last = Waiting /\ last' # Waiting /\ input' = CB_CANCEL_OPERATION
        /\ fsm[last'.user].state \in
             {"waiting_article", "waiting_quantity", "waiting_other_task_type",
              "waiting_finish"})
       => /\ fsm'[last'.user] = Idle
          /\ operations' = operations]_vars

\* the operation-start trigger of this step is accepted
TriggerAccepted == last = Waiting /\ last'.outcome \in {"ask_article", "ask_other_task"}

\* C9: a session that ended (cancel, finish, /start) keeps no field; the next
\* accepted trigger begins a session holding only operation_type and
\* employee_tg_id; every field a session holds was set in the current attempt,
\* and the row a finish appends is built from those fields only.
C9_NoLeakedFields ==
  [][/\ \A u \in Users :
          /\ KeysOf(fsm'[u].data) \subseteq fresh'[u]
          /\ fsm'[u].state = "None" => fsm'[u].data = EmptyData
     /\ TriggerAccepted =>
          KeysOf(fsm'[last'.user].data) = {"operation_type", "employee_tg_id"}
     /\ operations' # operations =>
          LET u == last'.user
              row == operations'[Len(operations')]
              has(k) == k \in fresh[u]
          IN /\ row.Type = fsm[u].data.operation_type /\ has("operation_type")
             /\ row.Article = (IF has("article") THEN fsm[u].data.article ELSE "")
             /\ row.Quantity = (IF has("quantity") THEN fsm[u].data.quantity ELSE Empty)
             /\ row.Start = format_time_hm(fsm[u].data.start_time_iso)
             /\ has("start_time_iso")
             /\ row.Extra \in {"", fsm[u].data.other_task_type}
             /\ row.Extra # "" => has("other_task_type")]_vars

\* an employee who committed an operation earlier has begun a new session
C9_Witness ==
  /\ last.outcome \in {"ask_article", "ask_other_task"}
  /\ \E i \in 1..Len(operations) : operations[i].Telegram_ID = last.user
  /\ KeysOf(fsm[last.user].data) = {"operation_type", "employee_tg_id"}

\* C10: when the employee lookup answers, the Finished signal in
\* waiting_finish attempts exactly one Operations append; whether the append
\* succeeds or fails the session ends Idle with no field kept; a failed append
\* is reported, leaves no row and is not retried (a second Finished signal has
\* no handler).
C10_FinishAppendsOnceAndClears ==
  [][(Handled("finish_operation") /\ last'.fail # 1)
       => /\ last'.opAppends = 1
          /\ fsm'[last'.user] = Idle
          /\ fresh'[last'.user] = {}
          /\ CallbackHandler(fsm'[last'.user].state, CB_FINISH_OPERATION) = "unhandled"
          /\ last'.fail = 2
               => last'.outcome = "operation_write_error" /\ operations' = operations
          /\ last'.fail = 0
               => /\ last'.outcome = "operation_done"
                  /\ Len(operations') = Len(operations) + 1]_vars

C10_Witness ==
  /\ last.handler = "finish_operation"
  /\ last.outcome = "operation_write_error"
  /\ fsm[last.user] = Idle
  /\ operations = <<>>

\* C11: no store exception leaves a handler: every update, whichever store
\* call fails during it, ends with a reply (possibly an error reply), never
\* with an exception handed back to the dispatcher.
C11_NoStoreExceptionPropagates == last.outcome # "exception"

\* C12: in the quantity step a text that is not an integer is not rejected:
\* the dialog goes on to waiting_finish with the quantity absent.
C12_UnparsableQuantityKept ==
  [][(Handled("process_quantity") /\ ~IsIntText(input'))
       => /\ last'.outcome # "quantity_invalid"
          /\ fsm'[last'.user].state = "waiting_finish"
          /\ fsm'[last'.user].data.quantity = NoInt]_vars

\* C13: in the quantity step the text "0" is accepted: the dialog goes on to
\* waiting_finish and the session keeps the quantity 0, which is not the
\* absent quantity.
C13_ZeroQuantityAccepted ==
  [][(Handled("process_quantity") /\ IsIntText(input') /\ IntOf(input') = 0)
       => /\ fsm'[last'.user].state = "waiting_finish"
          /\ fsm'[last'.user].data.quantity = 0
          /\ fsm'[last'.user].data.quantity # NoInt]_vars

\* C14: the start timestamp a session holds is the instant at which the
\* operation type was chosen, i.e. the instant of the trigger that began the
\* dialog.
C14_StartIsInstantOfTrigger ==
  \A u \in Users :
    fsm[u].data.start_time_iso # NoInt => fsm[u].data.start_time_iso = chosen_at[u]

\* the daily summary of employee u for day d, computed now
DailySummary(u, d) == build_employee_daily_summary(u, d, clock)

\* the last update was answered with the daily report of the sender
DailyReported == last.handler = "my_report_today" /\ last.outcome = "report"

\* the last update was answered with the admin summary
AdminReported == last.handler = "admin_summary" /\ last.outcome = "admin_report"

\* C15: for every employee, date, now and content of the sheets, the daily
\* summary has total_ops_minutes = FBS + packing + other-task minutes and
\* residue_minutes = max(total_shift_minutes - total_ops_minutes, 0), which
\* is never negative.
C15_ResidueIsClampedDifference ==
  \A u \in Users, d \in Days :
    LET s == DailySummary(u, d)
        diff == s.total_shift_minutes - s.total_ops_minutes
    IN /\ s.total_ops_minutes = s.fbs_minutes + s.pack_minutes + s.other_minutes
       /\ s.residue_minutes >= 0
       /\ s.residue_minutes >= diff
       /\ s.residue_minutes \in {0, diff}

\* a report whose operations outlast the shifts: the residue is cut at 0
C15_Witness ==
  /\ DailyReported
  /\ last.summary[1].total_ops_minutes > last.summary[1].total_shift_minutes
  /\ last.summary[1].residue_minutes = 0

\* what the Shifts row i adds to the shift minutes of its day: the stored
\* duration when the row has an end, else the whole minutes from its stored
\* start to now, at least 0
ShiftContribution(i) ==
  IF shifts[i].End # Empty THEN shifts[i].Dur
  ELSE LET elapsed == clock - Combine(shifts[i].Date, shifts[i].Start * SecondsPerMinute)
       IN IF elapsed < 0 THEN 0 ELSE elapsed \div SecondsPerMinute

\* C16: in the daily summary total_shift_minutes is the sum, over the Shifts
\* rows of the employee and the date, of the stored duration of a closed row
\* and of floor((now - start) / 60 s), at least 0, of a row with an empty end.
C16_OpenShiftCountsUpToNow ==
  \A u \in Users, d \in Days :
    DailySummary(u, d).total_shift_minutes =
      SumTo([i \in 1..Len(shifts) |->
               IF i \in ShiftRowsOf(u, d) THEN ShiftContribution(i) ELSE 0], Len(shifts))

\* a report of an employee whose shift of today is open and has lasted 3 minutes
C16_Witness ==
  /\ DailyReported
  /\ \E i \in ShiftRowsOf(last.user, DateOf(clock)) :
       shifts[i].End = Empty /\ ShiftContribution(i) > 0
  /\ last.summary[1].total_shift_minutes > 0

\* the Operations rows of employee u and day d
OperationRowsOf(u, d) ==
  {i \in 1..Len(operations) :
     operations[i].Date = format_date_dmy(d) /\ operations[i].Telegram_ID = u}

\* C17: every Operations row of the employee and the date is counted in the
\* daily report: its total_ops_minutes is the sum of the durations of all
\* those rows, the rows of a type other than the three named ones included.
C17_EveryOperationRowCounted ==
  DailyReported =>
    last.summary[1].total_ops_minutes =
      SumTo([i \in 1..Len(operations) |->
               IF i \in OperationRowsOf(last.user, DateOf(clock))
               THEN operations[i].Dur ELSE 0],
            Len(operations))

\* C18: every entry of an admin summary has the figures of the daily summary
\* of the same employee and date computed at the same moment, also while a
\* shift of the employee is open.
C18_AdminEqualsDaily ==
  AdminReported =>
    LET entries == last.summary[1].employees IN
    \A i \in 1..Len(entries) :
      LET e == entries[i]
          s == DailySummary(e.telegram_id, last.summary[1].date_str)
      IN /\ e.shift_minutes = s.total_shift_minutes
         /\ e.fbs_units = s.fbs_units /\ e.fbs_minutes = s.fbs_minutes
         /\ e.pack_units = s.pack_units /\ e.pack_minutes = s.pack_minutes
         /\ e.other_minutes = s.other_minutes

\* C19: for every date the admin summary has exactly one entry for each
\* identity with a Shifts row or an Operations row of the date, no entry for
\* another identity, and the shift_count of an entry is the number of Shifts
\* rows of the identity and the date.
C19_AdminEntriesPerIdentity ==
  \A d \in Days :
    LET entries == build_admin_summary_for_date(d).employees
        ids == {entries[i].telegram_id : i \in 1..Len(entries)}
    IN /\ ids = AdminEntries(d)
       /\ Len(entries) = Cardinality(ids)
       /\ \A i \in 1..Len(entries) :
            entries[i].shift_count = Cardinality(ShiftRowsOf(entries[i].telegram_id, d))

\* an admin summary with an entry for an identity that has operations and no
\* shift on the date, and no entry for the other identity, whose rows are of
\* another date
C19_Witness ==
  /\ AdminReported
  /\ Len(last.summary[1].employees) = 1
  /\ last.summary[1].employees[1].shift_count = 0
  /\ \E i \in 1..Len(shifts) :
       /\ shifts[i].Telegram_ID # last.summary[1].employees[1].telegram_id
       /\ shifts[i].Date # last.summary[1].date_str

\* the sheets after the day of C20: one shift of employee 1 started at 09:00
\* and ended at 17:00, one FBS operation of 10 units from 09:05 to 09:25
DayOfC20 ==
  /\ Len(shifts) = 1
  /\ shifts[1].Telegram_ID = 1
  /\ shifts[1].started_at = AtHM(9, 0) /\ shifts[1].ended_at = AtHM(17, 0)
  /\ Len(operations) = 1
  /\ operations[1].Telegram_ID = 1
  /\ operations[1].Type = OP_FBS /\ operations[1].Quantity = 10
  /\ operations[1].Start = format_time_hm(AtHM(9, 5))
  /\ operations[1].End = format_time_hm(AtHM(9, 25))

\* C20: after start shift at 09:00, an FBS operation of 10 units started at
\* 09:05 and finished at 09:25, and end shift at 17:00, the daily report of
\* the employee shows 480 shift minutes, 10 FBS units, 20 FBS minutes and a
\* residue of 460.
C20_DayOfWorkReport ==
  (DailyReported /\ last.user = 1 /\ DayOfC20)
    => /\ last.summary[1].total_shift_minutes = 480
       /\ last.summary[1].fbs_units = 10
       /\ last.summary[1].fbs_minutes = 20
       /\ last.summary[1].residue_minutes = 460

C20_Witness ==
  /\ DailyReported /\ last.user = 1 /\ DayOfC20
  /\ clock = AtHM(17, 0)
  /\ last.summary[1].total_shift_minutes = 480
  /\ last.summary[1].residue_minutes = 460

\* C21: the Operations sheet only grows: whatever the step (a shift started or
\* ended, a step of a dialog, a cancel, /start, a report, the clock), every
\* row already appended is still there, in its place and unchanged.
C21_OperationsOnlyGrow ==
  [][/\ Len(operations') >= Len(operations)
     /\ \A i \in 1..Len(operations) : operations'[i] = operations[i]]_vars

\* an operation was appended and the shift of its employee was closed after it
C21_Witness ==
  /\ operations # <<>>
  /\ last.handler = "end_shift"
  /\ last.outcome = "shift_ended"
  /\ operations[1].Telegram_ID = last.user

\* C22: every duration the bot writes (column F of a closed shift, the
\* duration of an appended operation) and every minute total of a report is
\* an integer that is not negative, also when the end instant precedes the
\* start instant.
C22_DurationsNotNegative ==
  /\ \A i \in 1..Len(shifts) : shifts[i].End # Empty => shifts[i].Dur \in Nat
  /\ \A i \in 1..Len(operations) : operations[i].Dur \in Nat
  /\ DailyReported =>
       LET s == last.summary[1] IN
       /\ s.total_shift_minutes \in Nat
       /\ s.fbs_minutes \in Nat /\ s.pack_minutes \in Nat /\ s.other_minutes \in Nat
       /\ s.total_ops_minutes \in Nat
       /\ s.residue_minutes \in Nat
  /\ AdminReported =>
       \A i \in 1..Len(last.summary[1].employees) :
         LET e == last.summary[1].employees[i] IN
         /\ e.shift_minutes \in Nat
         /\ e.fbs_minutes \in Nat /\ e.pack_minutes \in Nat /\ e.other_minutes \in Nat

\* a shift was closed at an instant that precedes its start (the clock was
\* set back in between), and 0 minutes were written
C22_Witness ==
  \E i \in 1..Len(shifts) :
    /\ shifts[i].End # Empty
    /\ shifts[i].ended_at < shifts[i].started_at
    /\ shifts[i].Dur = 0

\* C23: a line of two or more semicolon-delimited fields sent by a registered
\* employee is recorded as one Operation; a quantity field that is not an
\* integer is stored as absent and named in the comment, and the operation is
\* recorded all the same.
C23_FreeformLineRecorded ==
  [][\A u \in Users :
       (last = Waiting /\ input' = FREEFORM_LINE /\ last'.user = u /\ Registered(u))
         => /\ Len(operations') = Len(operations) + 1
            /\ operations'[Len(operations')].Telegram_ID = u
            /\ operations'[Len(operations')].Quantity = Empty
            /\ operations'[Len(operations')].Extra # ""]_vars

\* C24: the state of an employee enters, leaves or moves within the operation
\* dialog only along: none -> waiting_article (FBS or packing trigger),
\* waiting_article -> waiting_quantity, waiting_quantity -> waiting_finish,
\* none -> waiting_other_task_type (other-tasks trigger),
\* waiting_other_task_type -> waiting_finish, waiting_finish -> none (finish
\* or cancel), any state -> none on /start of a registered employee; and the
\* state waiting_packing_type is never set.
C24_DialogTransitions ==
  [][\A u \in Users :
       LET a == fsm[u].state
           b == fsm'[u].state
           h == last'.handler
       IN /\ b # "waiting_packing_type"
          /\ (a # b /\ (a \in OperationStates \/ b \in OperationStates))
               => /\ last'.user = u
                  /\ \/ a = "None" /\ b = "waiting_article"
                          /\ h \in {"start_fbs_operation", "start_packing_operation"}
                     \/ a = "waiting_article" /\ b = "waiting_quantity" /\ h = "process_article"
                     \/ a = "waiting_quantity" /\ b = "waiting_finish" /\ h = "process_quantity"
                     \/ a = "None" /\ b = "waiting_other_task_type" /\ h = "start_other_task"
                     \/ a = "waiting_other_task_type" /\ b = "waiting_finish"
                          /\ h = "other_task_chosen"
                     \/ a = "waiting_finish" /\ b = "None"
                          /\ h \in {"finish_operation", "cancel_operation"}
                     \/ b = "None" /\ h = "cmd_start" /\ Registered(u)]_vars

\* the dialog of the other tasks moved from the choice of the task to
\* waiting_finish
C24_Witness ==
  /\ last.handler = "other_task_chosen"
  /\ last.state = "waiting_other_task_type"
  /\ fsm[last.user].state = "waiting_finish"

\* C25: /start of a registered employee, in whatever state of a dialog, leaves
\* the session with no state and no field and writes no row; the signals that
\* end an operation have no handler in the session it leaves, and a row is
\* appended only by a Finished signal taken in waiting_finish, from the fields
\* stored since the session was last cleared: the abandoned operation is not
\* committed afterwards.
C25_StartAbandonsOperation ==
  [][/\ \A u \in Users :
          (Handled("cmd_start") /\ last'.user = u /\ last'.fail = 0 /\ Registered(u))
            => /\ fsm'[u] = Idle
               /\ fresh'[u] = {}
               /\ last'.opAppends = 0
               /\ UNCHANGED <<employees, shifts, operations>>
               /\ \A cb \in CallbackData : CallbackHandler(fsm'[u].state, cb) = "unhandled"
     /\ operations' # operations
          => /\ last'.handler = "finish_operation"
             /\ fsm[last'.user].state = "waiting_finish"
             /\ KeysOf(fsm[last'.user].data) \subseteq fresh[last'.user]]_vars

\* /start of a registered employee came in a state of the operation dialog
C25_Witness ==
  /\ last.handler = "cmd_start"
  /\ last.outcome = "welcome_back"
  /\ last.state \in OperationStates
  /\ fsm[last.user] = Idle

\* C26: the report of an employee and the admin summary, whatever they answer,
\* leave the three sheets and every session as they were; an open shift that
\* the report counted up to now still has no end time and no duration.
C26_ReportsChangeNothing ==
  [][(Handled("my_report_today") \/ Handled("admin_summary"))
       => /\ UNCHANGED <<employees, shifts, operations, fsm>>
          /\ last'.opAppends = 0]_vars

\* a report counted the minutes of an open shift up to now, while a session is
\* in a dialog
C26_Witness ==
  /\ DailyReported
  /\ last.summary[1].total_shift_minutes > 0
  /\ \E i \in 1..Len(shifts) :
       /\ shifts[i].Telegram_ID = last.user
       /\ shifts[i].End = Empty /\ shifts[i].Dur = Empty
  /\ \E u \in Users : fsm[u].state \in OperationStates

\* C27: an end-shift that succeeds changes one Shifts row, the first row of
\* the employee and of today whose end time is empty, and in it the end time
\* and the duration only; every other Shifts row (closed rows and rows of
\* other employees included) and every Employees and Operations row stays as
\* it was.
C27_EndShiftChangesOneRow ==
  [][(Handled("end_shift") /\ last'.outcome = "shift_ended")
       => LET u == last'.user
              open == {i \in 1..Len(shifts) :
                         /\ shifts[i].Telegram_ID = u
                         /\ shifts[i].Date = format_date_dmy(DateOf(clock))
                         /\ shifts[i].End = Empty}
          IN /\ open # {}
             /\ Len(shifts') = Len(shifts)
             /\ UNCHANGED <<employees, operations>>
             /\ \A i \in 1..Len(shifts) :
                  IF i \in open /\ \A j \in open : i <= j
                  THEN /\ shifts'[i].End = format_time_hm(clock)
                       /\ shifts'[i].Dur \in Nat
                       /\ shifts'[i].Date = shifts[i].Date
                       /\ shifts'[i].Name = shifts[i].Name
                       /\ shifts'[i].Telegram_ID = shifts[i].Telegram_ID
                       /\ shifts'[i].Start = shifts[i].Start
                  ELSE shifts'[i] = shifts[i]]_vars

\* a shift was closed while the sheet holds a row of another employee
C27_Witness ==
  /\ last.handler = "end_shift"
  /\ last.outcome = "shift_ended"
  /\ \E i, j \in 1..Len(shifts) :
       /\ shifts[i].Telegram_ID = last.user /\ shifts[i].ended_at = clock
       /\ shifts[j].Telegram_ID # last.user

\* C28: a start-shift or end-shift event leaves the state and the fields of
\* every session as they were, also in the middle of a dialog; and a Finished
\* signal of an employee who has no open shift any more still appends the
\* operation.
C28_ShiftEventsKeepDialog ==
  [][/\ (Handled("start_shift") \/ Handled("end_shift")) => UNCHANGED fsm
     /\ \A u \in Users :
          (Handled("finish_operation") /\ last'.user = u /\ last'.fail = 0
             /\ OpenShiftRows(u) = {})
            => /\ last'.outcome = "operation_done"
               /\ Len(operations') = Len(operations) + 1
               /\ operations'[Len(operations')].Telegram_ID = u]_vars

\* the shift of an employee was closed in the middle of a dialog and the
\* Finished signal that came later committed the operation
C28_Witness ==
  /\ last.handler = "finish_operation"
  /\ last.outcome = "operation_done"
  /\ OpenShiftRows(last.user) = {}
  /\ \E i \in 1..Len(shifts) :
       /\ shifts[i].Telegram_ID = last.user
       /\ shifts[i].End # Empty
  /\ operations[Len(operations)].Telegram_ID = last.user

\* C29: every Operations row the dialog appended has one of two shapes: the
\* type of the FBS assembly or of the packing, with an article that is not
\* empty, an integer quantity of at least 1 and no extra; or the type of the
\* other tasks, with no article, no quantity and the chosen task as the extra.
C29_OperationRowShapes ==
  \A i \in 1..Len(operations) :
    LET row == operations[i] IN
    \/ /\ row.Type \in {OP_FBS, OP_PACKING}
       /\ row.Article \notin {"", NoStr}
       /\ row.Quantity \in Nat /\ row.Quantity >= 1
       /\ row.Extra = ""
    \/ /\ row.Type = OP_OTHER
       /\ row.Article = ""
       /\ row.Quantity = Empty
       /\ row.Extra = OtherTaskOf("other_task:cleaning")

\* the Operations sheet holds a row of an FBS assembly or a packing
C29_Witness ==
  \E i \in 1..Len(operations) :
    operations[i].Type \in {OP_FBS, OP_PACKING} /\ operations[i].Quantity = 3

\* C30: with start-shift and end-shift events handled concurrently in one
\* process, an employee never has two open Shifts rows of one date (of two
\* concurrent start-shift handlers the second sees the row of the first),
\* and every end-shift that answered "ended" closed a row of its own: no
\* shift is closed twice.
C30_ConcurrentShiftEventsSerialized ==
  /\ \A u \in Users, d \in Days :
       Cardinality({i \in 1..Len(shifts) :
                      /\ shifts[i].Telegram_ID = u
                      /\ shifts[i].Date = format_date_dmy(d)
                      /\ shifts[i].End = Empty}) <= 1
  /\ Cardinality({t \in TaskIds : running[t].outcome = "shift_ended"})
       = Cardinality({i \in 1..Len(shifts) : shifts[i].End # Empty})

\* two start-shift requests of one employee are in flight together, both past
\* the check and the append: one appended, the other was refused
C30_Witness ==
  \E t1, t2 \in TaskIds :
    /\ running[t1].handler = "start_shift" /\ running[t2].handler = "start_shift"
    /\ running[t1].user = running[t2].user
    /\ running[t1].pc = "answering" /\ running[t2].pc = "answering"
    /\ running[t1].outcome = "shift_started"
    /\ running[t2].outcome = "shift_already_started"

\* C31: whatever the updates so far, no identity has two Employees rows, the
\* rows have distinct internal IDs, a session in waiting_name belongs to an
\* identity with no Employees row, and waiting_name is entered only by /start
\* of an identity that has no Employees row.
C31_OneEmployeeRowPerIdentity ==
  /\ [](/\ \A i, j \in 1..Len(employees) :
             (employees[i].Telegram_ID = employees[j].Telegram_ID
                \/ employees[i].ID = employees[j].ID) => i = j
        /\ \A u \in Users : fsm[u].state = "waiting_name" => ~Registered(u))
  /\ [][\A u \in Users :
          (fsm[u].state # "waiting_name" /\ fsm'[u].state = "waiting_name")
            => /\ ~Registered(u)
               /\ last'.handler = "cmd_start" /\ last'.user = u]_vars

\* both identities registered through /start and the name, one after the other
C31_Witness ==
  /\ last.handler = "process_name"
  /\ last.outcome = "registered"
  /\ last.state = "waiting_name"
  /\ Len(employees) = 2
  /\ employees[2].Telegram_ID = last.user
  /\ employees[1].Telegram_ID # last.user

\* C32: no state of the operation dialog is a dead end.  Whoever is in a
\* dialog is registered and /start goes to cmd_start in every state, where
\* it clears the session when the lookup answers; and the employee who keeps
\* completing the steps (article, quantity, choice of the task, then Finished
\* or Cancel) comes back to the idle session, from whatever state of the
\* dialog.
C32_NoDeadEnd ==
  /\ [](\A u \in Users :
          fsm[u].state \in OperationStates
            => Registered(u) /\ MessageHandler(fsm[u].state, CMD_START) = "cmd_start")
  /\ [][\A u \in Users :
          (fsm[u].state \in OperationStates /\ Handled("cmd_start")
             /\ last'.user = u /\ last'.fail = 0)
            => fsm'[u] = Idle]_vars
  /\ \A u \in Users : (fsm[u].state \in OperationStates) ~> (fsm[u] = Idle)

\* the session came back from waiting_finish to idle by Finished, with the
\* operation appended
C32_Witness ==
  /\ last.handler = "finish_operation"
  /\ last.state = "waiting_finish"
  /\ last.outcome = "operation_done"
  /\ fsm[last.user] = Idle
  /\ operations[Len(operations)].Type = OP_PACKING

====
